---- MODULE Spec2Model ----
(***************************************************************************)
(* State-machine model of src/scripts/scripts.js: the page-behaviour       *)
(* script of the site.  The onReady callback (lines 15-341) installs ten   *)
(* controllers in order; afterwards the page is driven by browser events   *)
(* (click, keydown, resize, scroll, blur, input, submit), intersection     *)
(* observer callbacks, timers and animation frames.  Every handler runs to *)
(* completion; the handlers of one event run one after the other in        *)
(* registration / propagation order (variable queue).                      *)
(***************************************************************************)
EXTENDS Integers, Sequences, FiniteSets, TLC

VARIABLES
  \* ---- the page (markup supplied by the host document) and initialization
  page,            \* which elements the markup holds (constant after Init)
  pc,              \* position of the onReady callback
  installed,       \* controllers whose listeners are registered
  bodyClass,       \* theme classes added to <body> by the hero classifier
  pillInDom,       \* the sections pill was appended to <body> (line 252)
  \* ---- panels (nav, sidebar overlay, sections overlay) and event dispatch
  navOpen, navExpanded,
  sidebarOpen, backdropOpen, sidebarExpanded,
  overlayOpen, pillExpanded,
  overflow,        \* document.body.style.overflow
  focus,           \* document.activeElement
  width,           \* viewport width
  queue,           \* handlers of the current event still to run
  evt,             \* the event being (or last) dispatched
  last,            \* the handler that ran last for evt ("" = none yet)
  \* ---- form validation
  value,
  errEls,          \* the nodes that follow each field in its parent, in document order
  errText, errActive, fieldError, ariaInvalid, validated,
  prevented,       \* the last submit event had preventDefault() called
  submitSeen,      \* fields validated by the submit listener, if it ran last
  \* ---- scroll position, back-to-top button
  scrollY, ticking, frames, fabVisible, lastRead, frameRuns,
  \* ---- scroll-spy
  linkActive,      \* which content-nav links carry the class active
  spyPrev,         \* intersection state last reported for each section
  timers,          \* pending setTimeout callbacks: the ids to activate, oldest first
  spyNote,         \* what touched the spy last, with the scroll offset then
  \* ---- reveal
  revealVisible, revealObserved, revealPrev, revealQueue, revealFires, lateEntry

initVars   == <<page, pc, installed, bodyClass, pillInDom>>
panelVars  == <<navOpen, navExpanded, sidebarOpen, backdropOpen, sidebarExpanded,
                overlayOpen, pillExpanded, overflow>>
eventVars  == <<queue, evt, last>>
formVars   == <<value, errEls, errText, errActive, fieldError, ariaInvalid,
                validated, prevented, submitSeen>>
fabVars    == <<ticking, frames, fabVisible, lastRead, frameRuns>>
spyVars    == <<linkActive, spyPrev, timers, spyNote>>
revealVars == <<revealVisible, revealObserved, revealPrev, revealQueue,
                revealFires, lateEntry>>
vars == <<initVars, panelVars, eventVars, focus, width, formVars, scrollY,
          fabVars, spyVars, revealVars>>

----------------------------------------------------------------------------
\* Bounds of the model

NFields   == 2     \* input/textarea fields of the form
NLinks    == 3     \* a[href^="#"] links of the content navigation
NReveal   == 2     \* elements tagged .reveal
MaxFrames == 2     \* cap on requestAnimationFrame callbacks pending at once
MaxTimers == 2     \* cap on setTimeout callbacks pending at once
MaxQueued == 2     \* cap on undelivered intersection entries of the reveal observer

Fields  == 1..NFields
Links   == 1..NLinks
Reveals == 1..NReveal

\* Program constants
threshold     == 480    \* back-to-top threshold
navBreakpoint == 901    \* (min-width: 901px)
sidebarMinWidth == 768  \* window.innerWidth >= 768

Variants == {"red", "blue", "purple"}
Widths   == {sidebarMinWidth - 1, sidebarMinWidth, navBreakpoint - 1, navBreakpoint}

----------------------------------------------------------------------------
\* The page: what document.querySelector / getElementById find at onReady.
\* A page is a record; BasePage is the empty page and each specification
\* below starts from the pages that hold the elements it is about.

Ids == {"a", "b", "c"}          \* section ids the content-nav links point to

BasePage ==
  [ navToggle    |-> FALSE,     \* .nav-toggle
    siteNav      |-> FALSE,     \* #site-nav
    navLink      |-> FALSE,     \* #site-nav holds an <a>
    reduceMotion |-> TRUE,      \* (prefers-reduced-motion: reduce)
    hasIO        |-> TRUE,      \* 'IntersectionObserver' in window
    form         |-> FALSE,     \* a <form>
    kind         |-> [f \in Fields |-> "text"],
    required     |-> [f \in Fields |-> FALSE],
    minlength    |-> [f \in Fields |-> 0],      \* 0 = no minlength attribute
    value0       |-> [f \in Fields |-> <<>>],   \* value attributes of the markup
    siblings     |-> [f \in Fields |-> <<>>],   \* the nodes after each field in its parent
    contentNav   |-> FALSE,     \* .content-nav
    navUl        |-> FALSE,     \* .content-nav holds a <ul>
    ulLink       |-> FALSE,     \* that <ul> holds an <a>
    href         |-> [l \in Links |-> "a"],     \* href="#<id>" of each link
    elIds        |-> {},        \* ids for which getElementById finds an element
    sidebar      |-> FALSE,     \* #page-sidebar
    sidebarLink  |-> FALSE,     \* #page-sidebar holds an <a>
    hero         |-> FALSE,     \* .page-hero
    heroMarks    |-> {},        \* its page-hero--<variant> classes
    topLinks     |-> FALSE ]    \* a[href="#top"]

Ready == pc \in {"done", "threw"}

InitPage(p, w, y) ==
  /\ page = p /\ pc = "nav" /\ installed = {} /\ bodyClass = {} /\ pillInDom = FALSE
  /\ navOpen = FALSE /\ navExpanded = "false"
  /\ sidebarOpen = FALSE /\ backdropOpen = FALSE /\ sidebarExpanded = "unset"
  /\ overlayOpen = FALSE /\ pillExpanded = "unset"
  /\ overflow = "" /\ focus = "body" /\ width = w
  /\ queue = <<>> /\ evt = [type |-> "none", target |-> "none", key |-> "none", opened |-> {}]
  /\ last = ""
  /\ errEls = p.siblings /\ errText = [f \in Fields |-> ""]
  /\ errActive = [f \in Fields |-> FALSE] /\ fieldError = [f \in Fields |-> FALSE]
  /\ ariaInvalid = [f \in Fields |-> "unset"] /\ validated = [f \in Fields |-> FALSE]
  /\ value = p.value0 /\ prevented = FALSE /\ submitSeen = {}
  /\ scrollY = y /\ ticking = FALSE /\ frames = 0 /\ fabVisible = FALSE
  /\ lastRead = -1 /\ frameRuns = 0
  /\ linkActive = [l \in Links |-> FALSE] /\ spyPrev = [i \in Ids |-> "none"]
  /\ timers = <<>> /\ spyNote = [kind |-> "none", id |-> "none", y |-> 0]
  /\ revealVisible = [e \in Reveals |-> FALSE] /\ revealObserved = {}
  /\ revealPrev = [e \in Reveals |-> "none"] /\ revealQueue = <<>>
  /\ revealFires = [e \in Reveals |-> 0] /\ lateEntry = FALSE

----------------------------------------------------------------------------
\* Initialization: the onReady callback, one controller per step in source
\* order.  No event handler runs before the callback has returned or thrown.

\* Sections of the scroll-spy: the link targets that exist in the document.
SectionIds == { page.href[l] : l \in Links } \cap page.elIds

\* A check that also shows the button at the threshold.
ShowAtThreshold(y) == y >= threshold

\* The back-to-top check (line 310).
Show(y) == y > threshold

StepNav ==
  /\ pc = "nav"
  /\ installed' = IF page.navToggle /\ page.siteNav THEN installed \cup {"nav"} ELSE installed
  /\ pc' = "reveal"
  /\ UNCHANGED <<page, bodyClass, pillInDom, panelVars, eventVars, focus, width, formVars,
                 scrollY, fabVars, spyVars, revealVars>>

\* A set-up that ignores the reduced-motion preference.
StepRevealIgnoresPreference ==
  /\ pc = "reveal"
  /\ IF page.hasIO
       THEN /\ revealObserved' = Reveals
            /\ installed' = installed \cup {"reveal"}
            /\ UNCHANGED revealVisible
       ELSE /\ revealVisible' = [e \in Reveals |-> TRUE]
            /\ UNCHANGED <<revealObserved, installed>>
  /\ pc' = "form"
  /\ UNCHANGED <<page, bodyClass, pillInDom, panelVars, eventVars, focus, width, formVars,
                 scrollY, fabVars, spyVars, revealPrev, revealQueue, revealFires, lateEntry>>

StepReveal ==
  /\ pc = "reveal"
  /\ IF ~page.reduceMotion /\ page.hasIO
       THEN /\ revealObserved' = Reveals
            /\ installed' = installed \cup {"reveal"}
            /\ UNCHANGED revealVisible
       ELSE /\ revealVisible' = [e \in Reveals |-> TRUE]
            /\ UNCHANGED <<revealObserved, installed>>
  /\ pc' = "form"
  /\ UNCHANGED <<page, bodyClass, pillInDom, panelVars, eventVars, focus, width, formVars,
                 scrollY, fabVars, spyVars, revealPrev, revealQueue, revealFires, lateEntry>>

StepForm ==
  /\ pc = "form"
  /\ installed' = IF page.form THEN installed \cup {"form"} ELSE installed
  /\ pc' = "spy"
  /\ UNCHANGED <<page, bodyClass, pillInDom, panelVars, eventVars, focus, width, formVars,
                 scrollY, fabVars, spyVars, revealVars>>

StepSpy ==
  /\ pc = "spy"
  /\ installed' = installed
       \cup (IF page.contentNav THEN {"spyClick"} ELSE {})
       \cup (IF page.contentNav /\ page.hasIO /\ SectionIds # {} THEN {"spy"} ELSE {})
  /\ pc' = "sidebar"
  /\ UNCHANGED <<page, bodyClass, pillInDom, panelVars, eventVars, focus, width, formVars,
                 scrollY, fabVars, spyVars, revealVars>>

StepSidebar ==
  /\ pc = "sidebar"
  /\ IF page.sidebar /\ width >= sidebarMinWidth
       THEN /\ installed' = installed \cup {"sidebar"}
            /\ sidebarExpanded' = "false"
       ELSE UNCHANGED <<installed, sidebarExpanded>>
  /\ pc' = "pill"
  /\ UNCHANGED <<page, bodyClass, pillInDom, navOpen, navExpanded, sidebarOpen, backdropOpen,
                 overlayOpen, pillExpanded, overflow, eventVars, focus, width, formVars,
                 scrollY, fabVars, spyVars, revealVars>>

\* Line 260: contentNav.querySelector('ul') is null when the content-nav has no
\* <ul>; .cloneNode on it throws a TypeError that ends the callback.
StepPill ==
  /\ pc = "pill"
  /\ IF page.contentNav
       THEN /\ pillInDom' = TRUE
            /\ pillExpanded' = "false"
            /\ IF page.navUl
                 THEN installed' = installed \cup {"pill"} /\ pc' = "fab"
                 ELSE installed' = installed /\ pc' = "threw"
       ELSE UNCHANGED <<pillInDom, pillExpanded, installed>> /\ pc' = "fab"
  /\ UNCHANGED <<page, bodyClass, navOpen, navExpanded, sidebarOpen, backdropOpen,
                 sidebarExpanded, overlayOpen, overflow, eventVars, focus, width, formVars,
                 scrollY, fabVars, spyVars, revealVars>>

\* An update that leaves the ticking flag as it is.
UpdateKeepsTicking ==
  /\ fabVisible' = Show(scrollY)
  /\ lastRead' = scrollY
  /\ UNCHANGED ticking

\* update(): lines 309-313.
Update ==
  /\ fabVisible' = Show(scrollY)
  /\ lastRead' = scrollY
  /\ ticking' = FALSE

StepFab ==
  /\ pc = "fab"
  /\ installed' = installed \cup {"fab"}
  /\ Update
  /\ pc' = "hero"
  /\ UNCHANGED <<page, bodyClass, pillInDom, panelVars, eventVars, focus, width, formVars,
                 scrollY, frames, frameRuns, spyVars, revealVars>>

HeroClass(marks) ==
  IF "red" \in marks THEN {"red"}
  ELSE IF "blue" \in marks THEN {"blue"}
  ELSE IF "purple" \in marks THEN {"purple"}
  ELSE {}

StepHero ==
  /\ pc = "hero"
  /\ bodyClass' = IF page.hero THEN bodyClass \cup HeroClass(page.heroMarks) ELSE bodyClass
  /\ pc' = "top"
  /\ UNCHANGED <<page, installed, pillInDom, panelVars, eventVars, focus, width, formVars,
                 scrollY, fabVars, spyVars, revealVars>>

StepTop ==
  /\ pc = "top"
  /\ installed' = IF page.topLinks THEN installed \cup {"top"} ELSE installed
  /\ pc' = "done"
  /\ UNCHANGED <<page, bodyClass, pillInDom, panelVars, eventVars, focus, width, formVars,
                 scrollY, fabVars, spyVars, revealVars>>

OnReady ==
  \/ StepNav \/ StepReveal \/ StepForm \/ StepSpy \/ StepSidebar
  \/ StepPill \/ StepFab \/ StepHero \/ StepTop

\* Every combination of present / absent elements and of hero variant classes.
InitPages ==
  { [BasePage EXCEPT !.navToggle = c[1], !.siteNav = c[2], !.form = c[3],
                     !.contentNav = c[4], !.navUl = c[4] /\ c[5], !.sidebar = c[6],
                     !.hero = c[7], !.heroMarks = IF c[7] THEN m ELSE {},
                     !.topLinks = c[8], !.elIds = IF c[4] THEN {"a"} ELSE {}]
    : c \in [1..8 -> BOOLEAN], m \in SUBSET Variants }

InitAny == \E p \in InitPages : \E w \in Widths : InitPage(p, w, 0)

SpecInit == InitAny /\ [][OnReady]_vars

\* What each controller needs in order to be set up.
Needs(c) ==
  CASE c = "nav"      -> page.navToggle /\ page.siteNav
    [] c = "form"     -> page.form
    [] c = "spyClick" -> page.contentNav
    [] c = "sidebar"  -> page.sidebar /\ width >= sidebarMinWidth
    [] c = "pill"     -> page.contentNav /\ page.navUl
    [] c = "fab"      -> TRUE
    [] c = "top"      -> page.topLinks
    [] OTHER          -> FALSE

Controllers == {"nav", "form", "spyClick", "sidebar", "pill", "fab", "top"}

\* C3: initialization never throws, and once it has ended every controller
\* whose elements are present is installed and the others are skipped; the
\* hero classifier has run.
C3_InitNeverFails ==
  /\ pc # "threw"
  /\ Ready =>
       /\ \A c \in Controllers : c \in installed <=> Needs(c)
       /\ (page.hero => bodyClass = HeroClass(page.heroMarks))

----------------------------------------------------------------------------
\* Event dispatch.  An event is delivered to the listeners on its propagation
\* path, target first, document last, each in registration order; listeners
\* of controllers that were not installed do not exist.

Owner(h) ==
  CASE h \in {"navToggleClick", "siteNavClick", "navDocClick", "navKeydown", "navResize"} -> "nav"
    [] h \in {"toggleBtnClick", "closeSidebarClick", "sidebarKeydown"} -> "sidebar"
    [] h \in {"pillClick", "closeBtnClick", "overlayClick", "overlayKeydown", "sheetClick"} -> "pill"
    [] h \in {"fabResize", "fabClick"} -> "fab"
    [] OTHER -> "none"

Listeners(path) == SelectSeq(path, LAMBDA h : Owner(h) \in installed)

\* Click targets and the listeners on their propagation path.  The nav toggle
\* is outside #site-nav; the floating buttons, the backdrop and the sections
\* overlay are children of <body> (lines 197, 202, 252, 262); the sidebar's
\* close button is inside the sidebar (line 209); the overlay holds the sheet,
\* the sheet holds its close button and the cloned list (lines 256-261).
ClickPath(t) ==
  CASE t = "navToggle"     -> <<"navToggleClick", "navDocClick">>
    [] t = "navLink"       -> <<"siteNavClick", "navDocClick">>
    [] t = "navOther"      -> <<"siteNavClick", "navDocClick">>
    [] t = "sidebarToggle" -> <<"toggleBtnClick", "navDocClick">>
    [] t = "sidebarClose"  -> <<"closeSidebarClick", "navDocClick">>
    [] t = "backdrop"      -> <<"closeSidebarClick", "navDocClick">>
    [] t = "sidebarLink"   -> <<"closeSidebarClick", "navDocClick">>
    [] t = "pill"          -> <<"pillClick", "navDocClick">>
    [] t = "overlayClose"  -> <<"closeBtnClick", "sheetClick", "overlayClick", "navDocClick">>
    [] t = "sheetLink"     -> <<"sheetClick", "overlayClick", "navDocClick">>
    [] t = "sheetOther"    -> <<"sheetClick", "overlayClick", "navDocClick">>
    [] t = "overlay"       -> <<"overlayClick", "navDocClick">>
    [] OTHER               -> <<"navDocClick">>

Targets ==
  {"navToggle", "navLink", "navOther", "sidebarToggle", "sidebarClose", "backdrop",
   "sidebarLink", "pill", "overlayClose", "sheetLink", "sheetOther", "overlay", "body"}

\* Whether the element is in the document.
Exists(t) ==
  CASE t = "navToggle"     -> page.navToggle
    [] t = "navLink"       -> page.siteNav /\ page.navLink
    [] t = "navOther"      -> page.siteNav
    [] t \in {"sidebarToggle", "sidebarClose", "backdrop"} -> "sidebar" \in installed
    [] t = "sidebarLink"   -> page.sidebar /\ page.sidebarLink
    [] t = "pill"          -> pillInDom
    [] t \in {"overlayClose", "sheetOther", "overlay"} -> "pill" \in installed
    [] t = "sheetLink"     -> "pill" \in installed /\ page.ulLink
    [] OTHER               -> TRUE

Focusable == {"navToggle", "navLink", "sidebarToggle", "sidebarClose", "sidebarLink",
              "pill", "overlayClose", "sheetLink"}

OpenPanels ==
  (IF navOpen THEN {"nav"} ELSE {}) \cup (IF sidebarOpen THEN {"sidebar"} ELSE {})
  \cup (IF overlayOpen THEN {"overlay"} ELSE {})

Idle == Ready /\ queue = <<>>

\* A click (pointer, or keyboard activation of the focused control).  A
\* pointer click moves focus to a focusable target and a keyboard activation
\* leaves it where it is.
Click(t) ==
  /\ Idle /\ Exists(t)
  /\ evt' = [type |-> "click", target |-> t, key |-> "none", opened |-> OpenPanels]
  /\ queue' = Listeners(ClickPath(t))
  /\ last' = ""
  /\ focus' \in {focus} \cup (IF t \in Focusable THEN {t} ELSE {})
  /\ UNCHANGED <<initVars, panelVars, width, formVars, scrollY, fabVars, spyVars, revealVars>>

Keys == {"Escape", "Tab"}

\* A key press; the three keydown listeners are on document (lines 54, 231,
\* 286).  Tab moves focus to some focusable element of the page.
KeyDown(k) ==
  /\ Idle
  /\ evt' = [type |-> "keydown", target |-> focus, key |-> k, opened |-> OpenPanels]
  /\ queue' = Listeners(<<"navKeydown", "sidebarKeydown", "overlayKeydown">>)
  /\ last' = ""
  /\ IF k = "Tab"
       THEN focus' \in {t \in Focusable : Exists(t)} \cup {"body"}
       ELSE focus' = focus
  /\ UNCHANGED <<initVars, panelVars, width, formVars, scrollY, fabVars, spyVars, revealVars>>

\* The window is resized to width w; resize listeners are on window (lines 62, 321).
Resize(w) ==
  /\ Idle
  /\ width' = w
  /\ evt' = [type |-> "resize", target |-> "window", key |-> "none", opened |-> OpenPanels]
  /\ queue' = Listeners(<<"navResize", "fabResize">>)
  /\ last' = ""
  /\ UNCHANGED <<initVars, panelVars, focus, formVars, scrollY, fabVars, spyVars, revealVars>>

\* Handler h is the next one to run.
Runs(h) == Ready /\ queue # <<>> /\ Head(queue) = h

\* The handler returns; propagation goes on unless it was stopped.
Return(h, stopped) ==
  /\ queue' = IF stopped THEN <<>> ELSE Tail(queue)
  /\ last' = h
  /\ UNCHANGED evt

Str(b) == IF b THEN "true" ELSE "false"

----------------------------------------------------------------------------
\* Mobile navigation (lines 20-67)

NavSame     == UNCHANGED <<navOpen, navExpanded>>
SidebarSame == UNCHANGED <<sidebarOpen, backdropOpen, sidebarExpanded>>
OverlaySame == UNCHANGED <<overlayOpen, pillExpanded>>
NoPanelChange == UNCHANGED <<panelVars, focus>>
OutsidePanels == UNCHANGED <<initVars, width, formVars, scrollY, fabVars, spyVars, revealVars>>

\* setOpen(open), followed by the caller's own focus() call on element `then`
\* ("" when the caller makes none).
SetOpen(open, then) ==
  /\ navOpen' = open
  /\ navExpanded' = Str(open)
  /\ overflow' = IF open THEN "hidden" ELSE ""
  /\ focus' = IF then # "" THEN then
              ELSE IF open /\ page.navLink THEN "navLink" ELSE focus
  /\ SidebarSame /\ OverlaySame

\* A toggle listener without e.stopPropagation().
NavToggleClickPropagates ==
  /\ Runs("navToggleClick")
  /\ SetOpen(~navOpen, "")
  /\ Return("navToggleClick", FALSE)
  /\ OutsidePanels

NavToggleClick ==
  /\ Runs("navToggleClick")
  /\ SetOpen(~navOpen, "")
  /\ Return("navToggleClick", TRUE)          \* e.stopPropagation()
  /\ OutsidePanels

SiteNavClick ==
  /\ Runs("siteNavClick")
  /\ IF evt.target = "navLink" THEN SetOpen(FALSE, "") ELSE NoPanelChange
  /\ Return("siteNavClick", FALSE)
  /\ OutsidePanels

NavDocClick ==
  /\ Runs("navDocClick")
  /\ IF evt.target \notin {"navLink", "navOther"} /\ evt.target # "navToggle" /\ navOpen
       THEN SetOpen(FALSE, "")
       ELSE NoPanelChange
  /\ Return("navDocClick", FALSE)
  /\ OutsidePanels

\* NavKeydown without the navToggle.focus() call of line 57.
NavKeydownNoFocus ==
  /\ Runs("navKeydown")
  /\ IF evt.key = "Escape" /\ navOpen
       THEN SetOpen(FALSE, "")
       ELSE NoPanelChange
  /\ Return("navKeydown", FALSE)
  /\ OutsidePanels

NavKeydown ==
  /\ Runs("navKeydown")
  /\ IF evt.key = "Escape" /\ navOpen
       THEN SetOpen(FALSE, "navToggle")
       ELSE NoPanelChange
  /\ Return("navKeydown", FALSE)
  /\ OutsidePanels

\* A resize listener that closes the nav at every width.
NavResizeAnyWidth ==
  /\ Runs("navResize")
  /\ IF navOpen THEN SetOpen(FALSE, "") ELSE NoPanelChange
  /\ Return("navResize", FALSE)
  /\ OutsidePanels

NavResize ==
  /\ Runs("navResize")
  /\ IF width >= navBreakpoint /\ navOpen THEN SetOpen(FALSE, "") ELSE NoPanelChange
  /\ Return("navResize", FALSE)
  /\ OutsidePanels

----------------------------------------------------------------------------
\* Sidebar overlay (lines 186-241)

openSidebar ==
  /\ sidebarOpen' = TRUE
  /\ backdropOpen' = TRUE
  /\ sidebarExpanded' = "true"
  /\ overflow' = "hidden"
  /\ focus' = IF page.sidebarLink THEN "sidebarLink" ELSE focus
  /\ NavSame /\ OverlaySame

closeSidebar ==
  /\ sidebarOpen' = FALSE
  /\ backdropOpen' = FALSE
  /\ sidebarExpanded' = "false"
  /\ overflow' = ""
  /\ focus' = "sidebarToggle"
  /\ NavSame /\ OverlaySame

ToggleBtnClick ==
  /\ Runs("toggleBtnClick")
  /\ openSidebar
  /\ Return("toggleBtnClick", FALSE)
  /\ OutsidePanels

\* closeBtn, backdrop and every sidebar link share the listener closeSidebar.
CloseSidebarClick ==
  /\ Runs("closeSidebarClick")
  /\ closeSidebar
  /\ Return("closeSidebarClick", FALSE)
  /\ OutsidePanels

SidebarKeydown ==
  /\ Runs("sidebarKeydown")
  /\ IF evt.key = "Escape" /\ sidebarOpen THEN closeSidebar ELSE NoPanelChange
  /\ Return("sidebarKeydown", FALSE)
  /\ OutsidePanels

----------------------------------------------------------------------------
\* Sections pill and overlay (lines 243-296)

openOverlay ==
  /\ overlayOpen' = TRUE
  /\ pillExpanded' = "true"
  /\ focus' = IF page.ulLink THEN "sheetLink" ELSE focus
  /\ overflow' = "hidden"
  /\ NavSame /\ SidebarSame

closeOverlay ==
  /\ overlayOpen' = FALSE
  /\ pillExpanded' = "false"
  /\ focus' = "pill"
  /\ overflow' = ""
  /\ NavSame /\ SidebarSame

PillClick ==
  /\ Runs("pillClick")
  /\ IF overlayOpen THEN closeOverlay ELSE openOverlay
  /\ Return("pillClick", FALSE)
  /\ OutsidePanels

CloseBtnClick ==
  /\ Runs("closeBtnClick")
  /\ closeOverlay
  /\ Return("closeBtnClick", FALSE)
  /\ OutsidePanels

OverlayClick ==
  /\ Runs("overlayClick")
  /\ IF evt.target = "overlay" THEN closeOverlay ELSE NoPanelChange
  /\ Return("overlayClick", FALSE)
  /\ OutsidePanels

OverlayKeydown ==
  /\ Runs("overlayKeydown")
  /\ IF evt.key = "Escape" /\ overlayOpen THEN closeOverlay ELSE NoPanelChange
  /\ Return("overlayKeydown", FALSE)
  /\ OutsidePanels

SheetClick ==
  /\ Runs("sheetClick")
  /\ IF evt.target = "sheetLink" THEN closeOverlay ELSE NoPanelChange
  /\ Return("sheetClick", FALSE)
  /\ OutsidePanels

\* window 'resize' listener of the back-to-top button: update (line 321).
FabResize ==
  /\ Runs("fabResize")
  /\ Update
  /\ Return("fabResize", FALSE)
  /\ UNCHANGED <<initVars, panelVars, focus, width, formVars, scrollY, frames, frameRuns,
                 spyVars, revealVars>>

PanelHandlers ==
  \/ NavToggleClick \/ SiteNavClick \/ NavDocClick \/ NavKeydown \/ NavResize
  \/ ToggleBtnClick \/ CloseSidebarClick \/ SidebarKeydown
  \/ PillClick \/ CloseBtnClick \/ OverlayClick \/ OverlayKeydown \/ SheetClick
  \/ FabResize

\* Pages with any of the three panel controllers, every width.
PanelPages ==
  { [BasePage EXCEPT !.navToggle = c[1], !.siteNav = c[1], !.navLink = c[1],
                     !.sidebar = c[2], !.sidebarLink = c[2],
                     !.contentNav = c[3], !.navUl = c[3], !.ulLink = c[3],
                     !.elIds = IF c[3] THEN {"a"} ELSE {}]
    : c \in [1..3 -> BOOLEAN] }

InitPanels == \E p \in PanelPages : \E w \in Widths : InitPage(p, w, 0)

NextPanels ==
  \/ OnReady
  \/ \E t \in Targets : Click(t)
  \/ \E k \in Keys : KeyDown(k)
  \/ \E w \in Widths : Resize(w)
  \/ PanelHandlers

SpecPanels == InitPanels /\ [][NextPanels]_vars

----------------------------------------------------------------------------
\* Panels: properties

Panels == {"nav", "sidebar", "overlay"}

IsOpen(P) == P \in OpenPanels

Trigger(P) ==
  CASE P = "nav" -> "navToggle" [] P = "sidebar" -> "sidebarToggle" [] OTHER -> "pill"

KeyHandler(P) ==
  CASE P = "nav" -> "navKeydown" [] P = "sidebar" -> "sidebarKeydown" [] OTHER -> "overlayKeydown"

\* Registration order of the keydown listeners (lines 54, 231, 286).
Later(P) ==
  CASE P = "nav" -> {"sidebar", "overlay"} [] P = "sidebar" -> {"overlay"} [] OTHER -> {}

Locked == overflow = "hidden"

EscapeEvt == evt.type = "keydown" /\ evt.key = "Escape"

\* C1: between events, no panel carries its open marker while the body scroll
\* lock is off (the half of the claimed equivalence "open marker <=> scroll
\* lock" that the claim states as "no reachable state has a panel marked open
\* while the page scroll is unlocked").
C1_NoOpenPanelUnlocked ==
  Idle => \A P \in Panels : IsOpen(P) => Locked

----------------------------------------------------------------------------
\* Form validation (lines 86-138).  A field value is a sequence of characters.

Whitespace     == {" ", "\n"}         \* characters String.prototype.trim removes
LineTerminator == {"\n"}              \* characters the regex '.' does not match

RECURSIVE TrimStart(_)
TrimStart(s) ==
  IF s # <<>> /\ Head(s) \in Whitespace THEN TrimStart(Tail(s)) ELSE s

RECURSIVE TrimEnd(_)
TrimEnd(s) ==
  IF s # <<>> /\ s[Len(s)] \in Whitespace THEN TrimEnd(SubSeq(s, 1, Len(s) - 1)) ELSE s

Trim(s) == TrimEnd(TrimStart(s))

\* A pattern without the dot part: /.+@.+/.
EmailPatternNoDot(s) ==
  \E i \in 1..Len(s) :
    /\ s[i] = "@" /\ i > 1 /\ s[i - 1] \notin LineTerminator
    /\ i < Len(s) /\ s[i + 1] \notin LineTerminator

\* /.+@.+\..+/.test(s): somewhere in s, one or more non-line-terminators, '@',
\* one or more non-line-terminators, '.', one or more non-line-terminators.
EmailPattern(s) ==
  \E i \in 1..Len(s) : \E j \in 1..Len(s) :
    /\ s[i] = "@" /\ i > 1 /\ s[i - 1] \notin LineTerminator
    /\ s[j] = "." /\ j > i + 1
    /\ \A k \in (i + 1)..(j - 1) : s[k] \notin LineTerminator
    /\ j < Len(s) /\ s[j + 1] \notin LineTerminator

\* validators.email / .text / .textarea (lines 106-118); min = 0 stands for a
\* field without minlength attribute.
ValidateEmail(v) ==
  IF v = <<>> THEN "Email is required."
  ELSE IF EmailPattern(v) THEN "" ELSE "Enter a valid email."

ValidateText(v, required) ==
  IF required /\ Trim(v) = <<>> THEN "This field is required." ELSE ""

\* A textarea rule that measures the untrimmed value.
ValidateTextareaRawLength(v, required, min) ==
  IF required /\ Trim(v) = <<>> THEN "Message is required."
  ELSE IF min # 0 /\ Len(v) < min THEN "Please write at least min characters."
  ELSE ""

ValidateTextarea(v, required, min) ==
  IF required /\ Trim(v) = <<>> THEN "Message is required."
  ELSE IF min # 0 /\ Len(Trim(v)) < min THEN "Please write at least min characters."
  ELSE ""

\* Field kinds: a textarea, or an input with its type; "tel" stands for every
\* input type without a validator of its own (line 121 falls back to text).
Kinds == {"email", "text", "textarea", "tel"}

Message(f, v) ==
  CASE page.kind[f] = "textarea" -> ValidateTextarea(v, page.required[f], page.minlength[f])
    [] page.kind[f] = "email"    -> ValidateEmail(v)
    [] OTHER                     -> ValidateText(v, page.required[f])

\* The rendering of the form: a record of the per-field display state.
Display ==
  [errEls |-> errEls, errText |-> errText, errActive |-> errActive,
   fieldError |-> fieldError, ariaInvalid |-> ariaInvalid, validated |-> validated]

\* field.nextElementSibling: the first node after the field that is an
\* element, "none" if there is none.
NextElementSibling(nodes) ==
  LET els == SelectSeq(nodes, LAMBDA n : n # "#text")
  IN  IF els = <<>> THEN "none" ELSE Head(els)

\* An ensureErrorEl that inserts a new element on every call.
EnsureErrorElAlwaysInserts(d, f) ==
  [d EXCEPT !.errEls[f] = <<"field-error">> \o @]

\* ensureErrorEl (lines 90-98): the element after the field is reused when it
\* is a .field-error, otherwise a new div.field-error is inserted before
\* field.nextSibling, that is directly after the field.
EnsureErrorEl(d, f) ==
  IF NextElementSibling(d.errEls[f]) = "field-error"
    THEN d
    ELSE [d EXCEPT !.errEls[f] = <<"field-error">> \o @]

\* showError that sets aria-invalid only when there is a message.
ShowErrorStaleAria(d, f, msg) ==
  [EnsureErrorEl(d, f) EXCEPT !.errText[f] = msg,
                              !.errActive[f] = (msg # ""),
                              !.fieldError[f] = (msg # ""),
                              !.ariaInvalid[f] = IF msg # "" THEN "true" ELSE @,
                              !.validated[f] = TRUE]

\* showError(field, msg)
ShowError(d, f, msg) ==
  [EnsureErrorEl(d, f) EXCEPT !.errText[f] = msg,
                              !.errActive[f] = (msg # ""),
                              !.fieldError[f] = (msg # ""),
                              !.ariaInvalid[f] = IF msg # "" THEN "true" ELSE "false",
                              !.validated[f] = TRUE]

\* validate(field): the display afterwards; its result is Message(f, v) = "".
ValidateField(d, f, v) == ShowError(d, f, Message(f, v))

Render(d) ==
  /\ errEls' = d.errEls /\ errText' = d.errText /\ errActive' = d.errActive
  /\ fieldError' = d.fieldError /\ ariaInvalid' = d.ariaInvalid
  /\ validated' = d.validated

FieldNames == <<"field1", "field2", "field3", "field4">>
FieldName(f) == FieldNames[f]

FormLive == Idle /\ "form" \in installed

OutsideForm == UNCHANGED <<initVars, panelVars, eventVars, width, scrollY, fabVars,
                           spyVars, revealVars>>

\* The user moves focus into field f (no listener).
FocusField(f) ==
  /\ FormLive /\ focus # FieldName(f)
  /\ focus' = FieldName(f)
  /\ submitSeen' = {}
  /\ UNCHANGED <<value, errEls, errText, errActive, fieldError, ariaInvalid, validated,
                 prevented>>
  /\ OutsideForm

\* 'blur' listener (line 127): field f loses focus.
Blur(f) ==
  /\ FormLive /\ focus = FieldName(f)
  /\ focus' = "body"
  /\ Render(ValidateField(Display, f, value[f]))
  /\ submitSeen' = {}
  /\ UNCHANGED <<value, prevented>>
  /\ OutsideForm

\* 'input' listener (line 128): the user changes the value of the focused field.
Input(f, v) ==
  /\ FormLive /\ focus = FieldName(f) /\ v # value[f]
  /\ value' = [value EXCEPT ![f] = v]
  /\ Render(ValidateField(Display, f, v))
  /\ submitSeen' = {}
  /\ UNCHANGED <<focus, prevented>>
  /\ OutsideForm

\* fields.forEach(f => { if (!validate(f)) ok = false; }) over fields fs, in
\* document order: every field is validated, ok records whether all passed.
\* A pass that stops at the first failing field (fields.every(validate)).
RECURSIVE SubmitPassShortCircuit(_, _)
SubmitPassShortCircuit(fs, r) ==
  IF fs = <<>> \/ ~r.ok THEN r
  ELSE LET f == Head(fs)
       IN  SubmitPassShortCircuit(Tail(fs),
                      [d    |-> ValidateField(r.d, f, value[f]),
                       ok   |-> r.ok /\ Message(f, value[f]) = "",
                       seen |-> r.seen \cup {f}])

RECURSIVE SubmitPass(_, _)
SubmitPass(fs, r) ==
  IF fs = <<>> THEN r
  ELSE LET f == Head(fs)
       IN  SubmitPass(Tail(fs),
                      [d    |-> ValidateField(r.d, f, value[f]),
                       ok   |-> r.ok /\ Message(f, value[f]) = "",
                       seen |-> r.seen \cup {f}])

FieldSeq == [i \in 1..NFields |-> i]

\* form.querySelector('.error'): the first field, in document order, with the
\* error class (error elements carry the class field-error only); 0 = none.
FirstError(d) ==
  IF \E f \in Fields : d.fieldError[f]
    THEN CHOOSE f \in Fields : d.fieldError[f] /\ \A g \in 1..(f - 1) : ~d.fieldError[g]
    ELSE 0

\* 'submit' listener (lines 130-137).  A submission that is not prevented
\* leaves the page.
Submit ==
  /\ FormLive
  /\ LET r == SubmitPass(FieldSeq, [d |-> Display, ok |-> TRUE, seen |-> {}])
     IN  /\ Render(r.d)
         /\ submitSeen' = r.seen
         /\ prevented' = ~r.ok
         /\ focus' = IF ~r.ok /\ FirstError(r.d) # 0 THEN FieldName(FirstError(r.d)) ELSE focus
         /\ pc' = IF r.ok THEN "submitted" ELSE pc
  /\ UNCHANGED <<page, installed, bodyClass, pillInDom, value, panelVars, eventVars, width,
                 scrollY, fabVars, spyVars, revealVars>>

\* Values the user types, and the fields a form can hold.
FormValues == { <<>>, <<" ">>, <<"a", "@", "b">>, <<"a", "@", "b", ".", "c">> }

FieldConfigs ==
  { [kind |-> "email", required |-> TRUE, minlength |-> 0, siblings |-> <<>>],
    [kind |-> "text", required |-> TRUE, minlength |-> 0, siblings |-> <<"#text">>],
    [kind |-> "tel", required |-> FALSE, minlength |-> 0, siblings |-> <<"hint">>],
    [kind |-> "textarea", required |-> TRUE, minlength |-> 4,
     siblings |-> <<"#text", "hint">>] }

FormPages ==
  { [BasePage EXCEPT !.form = TRUE,
                     !.kind = [f \in Fields |-> c[f].kind],
                     !.required = [f \in Fields |-> c[f].required],
                     !.minlength = [f \in Fields |-> c[f].minlength],
                     !.siblings = [f \in Fields |-> c[f].siblings],
                     !.value0 = [f \in Fields |-> v[f]]]
    : c \in [Fields -> FieldConfigs], v \in [Fields -> {<<>>, <<"a", "@", "b">>}] }

InitForm == \E p \in FormPages : InitPage(p, navBreakpoint, 0)

NextForm ==
  \/ OnReady
  \/ \E f \in Fields : FocusField(f)
  \/ \E f \in Fields : Blur(f)
  \/ \E f \in Fields : \E v \in FormValues : Input(f, v)
  \/ Submit

SpecForm == InitForm /\ [][NextForm]_vars

\* Field f is marked invalid: error class, aria-invalid "true", error element active.
MarkedInvalid(f) == fieldError[f] /\ ariaInvalid[f] = "true" /\ errActive[f]
MarkedValid(f)   == ~fieldError[f] /\ ariaInvalid[f] # "true" /\ ~errActive[f]

\* C4: for every field, the displayed error message is non-empty iff the field
\* is marked invalid (error class, aria-invalid "true", error element active);
\* with an empty message all three are off, and aria-invalid is "false" as
\* soon as the field has been validated.  The message shown is the one the
\* field's rule gives for its current value.
C4_MessageIffInvalid ==
  \A f \in Fields :
    /\ errText[f] # "" <=> MarkedInvalid(f)
    /\ errText[f] = "" => MarkedValid(f)
    /\ validated[f] =>
         /\ ariaInvalid[f] = (IF errText[f] # "" THEN "true" ELSE "false")
         /\ errText[f] = Message(f, value[f])

\* A form with one field showing an error and another validated without one.
C4_Witness ==
  \E f, g \in Fields :
    /\ validated[f] /\ errText[f] # "" /\ MarkedInvalid(f)
    /\ validated[g] /\ errText[g] = "" /\ ariaInvalid[g] = "false"

\* C5: after a submit, every field has been revalidated in that pass; the
\* default action was prevented iff some field fails its rule; and when it was
\* prevented, focus is on the first field in document order with the error class.
C5_SubmitRevalidatesAll ==
  (submitSeen # {} \/ pc = "submitted") =>
    /\ submitSeen = Fields
    /\ \A f \in Fields : validated[f] /\ errText[f] = Message(f, value[f])
    /\ prevented <=> \E f \in Fields : Message(f, value[f]) # ""
    /\ prevented <=> pc # "submitted"
    /\ prevented =>
         \E f \in Fields :
           /\ focus = FieldName(f) /\ fieldError[f]
           /\ \A g \in 1..(f - 1) : ~fieldError[g]

\* A prevented submit in which the first field passed and a later one failed.
C5_Witness ==
  /\ submitSeen = Fields /\ prevented
  /\ ~fieldError[1] /\ fieldError[2] /\ focus = FieldName(2)

----------------------------------------------------------------------------
\* Scrolling and the back-to-top button (lines 298-324, 334-340)

\* Scroll offsets the page is observed at.
ScrollStops == {0, threshold - 1, threshold, threshold + 1, 2 * threshold}

\* onScroll (lines 314-319): schedule update for the next animation frame
\* unless one is flagged as scheduled.
OnScroll ==
  IF "fab" \in installed /\ ~ticking
    THEN frames' = frames + 1 /\ ticking' = TRUE
    ELSE UNCHANGED <<frames, ticking>>

\* The page is scrolled to offset y; the 'scroll' event runs onScroll.
Scroll(y) ==
  /\ Idle /\ y # scrollY
  /\ ticking \/ frames < MaxFrames
  /\ scrollY' = y
  /\ OnScroll
  /\ UNCHANGED <<initVars, panelVars, eventVars, focus, width, formVars, fabVisible,
                 lastRead, frameRuns, spyVars, revealVars>>

\* An animation frame: every requestAnimationFrame callback pending at its
\* start runs; all of them are update.  frameRuns counts the runs in the frame.
Frame ==
  /\ Idle /\ frames > 0
  /\ Update
  /\ frameRuns' = frames
  /\ frames' = 0
  /\ UNCHANGED <<initVars, panelVars, eventVars, focus, width, formVars, scrollY,
                 spyVars, revealVars>>

\* Click on the back-to-top button (line 323) or on an a[href="#top"] link
\* (lines 335-340): window.scrollTo({top: 0}); the page ends at offset 0.
ScrollToTop ==
  /\ "fab" \in installed
  /\ Scroll(0)

FabPages == { [BasePage EXCEPT !.topLinks = t] : t \in BOOLEAN }

InitFab == \E p \in FabPages : \E w \in Widths : \E y \in ScrollStops : InitPage(p, w, y)

NextFab ==
  \/ OnReady
  \/ \E y \in ScrollStops : Scroll(y)
  \/ ScrollToTop
  \/ Frame
  \/ \E w \in Widths : Resize(w)
  \/ FabResize

SpecFab == InitFab /\ [][NextFab]_vars

\* C8: at most one update is pending for, and run in, an animation frame, and
\* ticking is true exactly when one is pending.
C8_OneUpdatePerFrame ==
  /\ frames <= 1
  /\ frameRuns <= 1
  /\ ticking <=> frames = 1

\* C9: after every run of update the button is visible iff the scroll offset
\* it read is strictly greater than 480: offsets up to and including 480 give
\* hidden, 481 and above give visible; before the first run it is hidden.
C9_VisibleIffAboveThreshold ==
  /\ lastRead = -1 => ~fabVisible
  /\ lastRead # -1 =>
       /\ lastRead <= 480 => ~fabVisible
       /\ lastRead >= 481 => fabVisible
  /\ "fab" \in installed => lastRead # -1

\* update has run at init, on resize and in a frame, and read exactly 480.
C9_Witness ==
  /\ frameRuns >= 1 /\ evt.type = "resize" /\ lastRead = 480 /\ ~fabVisible

----------------------------------------------------------------------------
\* Scroll-spy (lines 140-184)

\* Layout of the three possible sections, in document order a, b, c: two short
\* sections and a long one.  The observer's root is the top 40% of the
\* viewport (rootMargin '0px 0px -60% 0px'), its threshold is 0.1.
ViewportHeight == 1000

RootHeight == (ViewportHeight * 40) \div 100

SectionTop(id) ==
  CASE id = "a" -> 450 [] id = "b" -> 800 [] OTHER -> 1500

SectionHeight(id) ==
  CASE id = "a" -> 100 [] id = "b" -> 100 [] OTHER -> 600

Max(x, y) == IF x >= y THEN x ELSE y
Min(x, y) == IF x <= y THEN x ELSE y

\* Height of the part of section id inside the root when scrolled to y.
Overlap(id, y) ==
  Max(0, Min(SectionTop(id) + SectionHeight(id), y + RootHeight) - Max(SectionTop(id), y))

\* entry.isIntersecting: at least a tenth of the section is inside the root.
Intersecting(id, y) == Overlap(id, y) > 0 /\ 10 * Overlap(id, y) >= SectionHeight(id)

\* entry.boundingClientRect.top
RectTop(id, y) == SectionTop(id) - y

Status(id, y) == IF Intersecting(id, y) THEN "in" ELSE "out"

\* The member of the non-empty set ids with the smallest top (sort, line 161).
Topmost(ids, y) == CHOOSE id \in ids : \A o \in ids : RectTop(id, y) <= RectTop(o, y)

\* A setActive that only adds the class to the matching links.
SetActiveAddOnly(id) ==
  linkActive' = [l \in Links |-> linkActive[l] \/ page.href[l] = id]

\* setActive(id) (lines 152-154)
setActive(id) ==
  linkActive' = [l \in Links |-> page.href[l] = id]

\* The observer's callback (lines 157-166).  The browser hands it one entry
\* for each observed section whose intersection state changed since the
\* section was last reported (every section, the first time).
SpyCallback ==
  /\ Idle /\ "spy" \in installed
  /\ LET entries == { id \in SectionIds : Status(id, scrollY) # spyPrev[id] }
         visible == { id \in entries : Intersecting(id, scrollY) }
     IN  /\ entries # {}
         /\ spyPrev' = [id \in Ids |-> IF id \in entries THEN Status(id, scrollY)
                                        ELSE spyPrev[id]]
         /\ IF visible # {}
              THEN /\ setActive(Topmost(visible, scrollY))
                   /\ spyNote' = [kind |-> "observer", id |-> Topmost(visible, scrollY),
                                   y |-> scrollY]
              ELSE /\ UNCHANGED linkActive
                   /\ spyNote' = [kind |-> "observer", id |-> "none", y |-> scrollY]
  /\ UNCHANGED <<initVars, panelVars, eventVars, focus, width, formVars, scrollY, fabVars,
                 timers, revealVars>>

\* Click on content-nav link l (lines 178-182): setActive is deferred by a
\* 50 ms timer; the browser then jumps to the link's target if it exists.
LinkClick(l) ==
  /\ Idle /\ "spyClick" \in installed
  /\ Len(timers) < MaxTimers
  /\ timers' = Append(timers, page.href[l])
  /\ spyNote' = [kind |-> "click", id |-> page.href[l], y |-> scrollY]
  /\ IF page.href[l] \in page.elIds
       THEN scrollY' = SectionTop(page.href[l]) /\ OnScroll
       ELSE UNCHANGED <<scrollY, frames, ticking>>
  /\ UNCHANGED <<initVars, panelVars, eventVars, focus, width, formVars, fabVisible,
                 lastRead, frameRuns, linkActive, spyPrev, revealVars>>

\* The oldest pending timer fires (all timers have the same delay).
Timer ==
  /\ Idle /\ timers # <<>>
  /\ setActive(Head(timers))
  /\ timers' = Tail(timers)
  /\ spyNote' = [kind |-> "timer", id |-> Head(timers), y |-> scrollY]
  /\ UNCHANGED <<initVars, panelVars, eventVars, focus, width, formVars, scrollY, fabVars,
                 spyPrev, revealVars>>

SpyStops == {0, 100, 450, 1400}

\* Link lists: every assignment of section ids to the links that follows the
\* document order of the sections; two links may share a target.
HrefChoices ==
  { h \in [Links -> Ids] :
      \A l \in Links : \A m \in Links :
         (l < m) => (h[l] = h[m] \/ SectionTop(h[l]) < SectionTop(h[m])) }

SpyPages ==
  { [BasePage EXCEPT !.contentNav = TRUE, !.navUl = TRUE, !.ulLink = TRUE,
                     !.href = h, !.elIds = e]
    : h \in HrefChoices, e \in {Ids, Ids \ {"c"}} }

InitSpy == \E p \in SpyPages : \E y \in {0, 100} : InitPage(p, navBreakpoint, y)

NextSpy ==
  \/ OnReady
  \/ \E y \in SpyStops : Scroll(y)
  \/ SpyCallback
  \/ \E l \in Links : LinkClick(l)
  \/ Timer

SpecSpy == InitSpy /\ [][NextSpy]_vars

ActiveLinks == { l \in Links : linkActive[l] }

IntersectingNow == { id \in SectionIds : Intersecting(id, scrollY) }

\* C6: right after an observer callback, if any section satisfies the
\* intersection condition, the active links are those of the topmost of all
\* sections that satisfy it.
C6_TopmostOfAllIntersecting ==
  (spyNote.kind = "observer" /\ spyNote.y = scrollY /\ IntersectingNow # {}) =>
     ActiveLinks = { l \in Links : page.href[l] = Topmost(IntersectingNow, scrollY) }

\* C7 as claimed: at most one link is active, and exactly one after an activation.
C7_AtMostOneActiveLink ==
  /\ Cardinality(ActiveLinks) <= 1
  /\ (spyNote.kind = "timer" \/ (spyNote.kind = "observer" /\ spyNote.id # "none"))
        => Cardinality(ActiveLinks) = 1

\* C7 as amended: all active links point to one section id; after an
\* activation the active links are exactly the links to the activated id, at
\* least one; so with pairwise distinct hrefs at most one link is active and
\* exactly one after an activation.
C7_OneActiveTarget ==
  /\ \A l \in ActiveLinks : \A m \in ActiveLinks : page.href[l] = page.href[m]
  /\ (spyNote.kind = "timer" \/ (spyNote.kind = "observer" /\ spyNote.id # "none"))
        => /\ ActiveLinks = { l \in Links : page.href[l] = spyNote.id }
           /\ ActiveLinks # {}
  /\ (\A l \in Links : \A m \in Links : page.href[l] = page.href[m] => l = m)
        => /\ Cardinality(ActiveLinks) <= 1
           /\ (spyNote.kind = "timer" \/ (spyNote.kind = "observer" /\ spyNote.id # "none"))
                 => Cardinality(ActiveLinks) = 1

\* An observer activation moved the class from one link to another, on a page
\* whose links have distinct targets.
C7_Witness ==
  /\ \A l \in Links : \A m \in Links : page.href[l] = page.href[m] => l = m
  /\ spyNote.kind = "observer" /\ spyNote.id = "b" /\ spyPrev["a"] = "in"
  /\ Cardinality(ActiveLinks) = 1

----------------------------------------------------------------------------
\* Scroll reveal (lines 69-84)

\* Layout: .reveal element e is 100 high, one viewport below the one before;
\* the observer's root is the top 90% of the viewport (rootMargin
\* '0px 0px -10% 0px'), its threshold is 0.1.
RevealRoot == (ViewportHeight * 90) \div 100

RevealTop(e) == e * ViewportHeight

RevealOverlap(e, y) ==
  Max(0, Min(RevealTop(e) + 100, y + RevealRoot) - Max(RevealTop(e), y))

RevealIntersecting(e, y) == 10 * RevealOverlap(e, y) >= 100

RevealStatus(e, y) == IF RevealIntersecting(e, y) THEN "in" ELSE "out"

\* The elements in the order of the observer's entries.
RECURSIVE EntriesOf(_, _, _)
EntriesOf(e, changed, y) ==
  IF e > NReveal THEN <<>>
  ELSE (IF e \in changed
          THEN <<[target |-> e, isIntersecting |-> RevealIntersecting(e, y)]>>
          ELSE <<>>)
       \o EntriesOf(e + 1, changed, y)

\* The browser computes intersections: one entry is queued for every observed
\* element whose state changed since it was last reported (every observed
\* element, the first time).  Entries wait until the callback is invoked.
RevealObserve ==
  /\ Idle /\ "reveal" \in installed
  /\ Len(revealQueue) < MaxQueued
  /\ LET changed == { e \in revealObserved : RevealStatus(e, scrollY) # revealPrev[e] }
     IN  /\ changed # {}
         /\ revealQueue' = revealQueue \o EntriesOf(1, changed, scrollY)
         /\ revealPrev' = [e \in Reveals |-> IF e \in changed THEN RevealStatus(e, scrollY)
                                              ELSE revealPrev[e]]
  /\ UNCHANGED <<initVars, panelVars, eventVars, focus, width, formVars, scrollY, fabVars,
                 spyVars, revealVisible, revealObserved, revealFires, lateEntry>>

\* The elements with an intersecting entry in batch q.
Hit(q) == { q[i].target : i \in { j \in 1..Len(q) : q[j].isIntersecting } }

\* A callback that marks elements visible but keeps observing them.
RevealCallbackNoUnobserve ==
  /\ Idle /\ revealQueue # <<>>
  /\ revealVisible' = [e \in Reveals |-> revealVisible[e] \/ e \in Hit(revealQueue)]
  /\ revealObserved' = revealObserved
  /\ revealQueue' = <<>>
  /\ revealFires' = [e \in Reveals |-> revealFires[e] + (IF e \in Hit(revealQueue) THEN 1 ELSE 0)]
  /\ lateEntry' = (lateEntry \/ \E i \in 1..Len(revealQueue) :
                                   revealQueue[i].target \notin revealObserved)
  /\ UNCHANGED <<initVars, panelVars, eventVars, focus, width, formVars, scrollY, fabVars,
                 spyVars, revealPrev>>

\* The observer's callback (lines 73-80) on all queued entries: each
\* intersecting entry's element is marked visible and unobserved.
\* revealFires[e] counts the callbacks that marked e; lateEntry records a
\* callback that received an entry of an element no longer observed.
RevealCallback ==
  /\ Idle /\ revealQueue # <<>>
  /\ revealVisible' = [e \in Reveals |-> revealVisible[e] \/ e \in Hit(revealQueue)]
  /\ revealObserved' = revealObserved \ Hit(revealQueue)
  /\ revealQueue' = <<>>
  /\ revealFires' = [e \in Reveals |-> revealFires[e] + (IF e \in Hit(revealQueue) THEN 1 ELSE 0)]
  /\ lateEntry' = (lateEntry \/ \E i \in 1..Len(revealQueue) :
                                   revealQueue[i].target \notin revealObserved)
  /\ UNCHANGED <<initVars, panelVars, eventVars, focus, width, formVars, scrollY, fabVars,
                 spyVars, revealPrev>>

\* Offsets with no element in view (0) and with element e alone in view.
RevealStops == {0} \cup { RevealTop(e) - 500 : e \in Reveals }

RevealPages ==
  { [BasePage EXCEPT !.reduceMotion = r, !.hasIO = o] : r \in BOOLEAN, o \in BOOLEAN }

InitReveal == \E p \in RevealPages : \E y \in RevealStops : InitPage(p, navBreakpoint, y)

NextReveal ==
  \/ OnReady
  \/ \E y \in RevealStops : Scroll(y)
  \/ RevealObserve
  \/ RevealCallback

SpecReveal == InitReveal /\ [][NextReveal]_vars

\* C10: every element is marked visible by at most one callback; a visible
\* element is no longer observed and has no entry waiting, and no callback
\* ever receives an entry of an element that is no longer observed; an
\* element marked visible is never unmarked.
C10_RevealOneShot ==
  /\ [](\A e \in Reveals :
          /\ revealFires[e] <= 1
          /\ revealVisible[e] =>
               /\ e \notin revealObserved
               /\ \A i \in 1..Len(revealQueue) : revealQueue[i].target # e)
  /\ [](~lateEntry)
  /\ [][\A e \in Reveals : revealVisible[e] => revealVisible'[e]]_vars

\* Element 1 was revealed by a callback and has left the viewport again, while
\* element 2 has entered and left it in between callbacks and is still pending.
C10_Witness ==
  /\ "reveal" \in installed
  /\ revealVisible[1] /\ revealFires[1] = 1 /\ ~RevealIntersecting(1, scrollY)
  /\ ~revealVisible[2] /\ revealPrev[2] = "out" /\ 2 \in revealObserved
  /\ Len(revealQueue) >= 2

----------------------------------------------------------------------------
\* Reveal and the reduced-motion preference

\* The observer was never asked for anything: nothing observed, no state
\* reported, no entry queued, no callback has marked an element.
NoObserverActivity ==
  /\ revealObserved = {}
  /\ revealQueue = <<>>
  /\ \A e \in Reveals : revealPrev[e] = "none" /\ revealFires[e] = 0
  /\ ~lateEntry

\* C11: with the reduced-motion preference set at initialization, every .reveal
\* element is visible once initialization has finished and the observer is never
\* used (nothing observed, no entry, no callback); with the preference not set
\* and IntersectionObserver available, an element is visible only after a
\* callback has received an intersecting entry for it.
C11_ReducedMotionRevealsAtOnce ==
  /\ page.reduceMotion =>
       /\ NoObserverActivity
       /\ Ready => \A e \in Reveals : revealVisible[e]
  /\ (~page.reduceMotion /\ page.hasIO) =>
       \A e \in Reveals : revealVisible[e] => revealFires[e] >= 1

\* A reduced-motion page after initialization and some scrolling.
C11_Witness ==
  /\ page.reduceMotion /\ page.hasIO /\ Ready /\ ticking
  /\ \E e \in Reveals : RevealIntersecting(e, scrollY)
  /\ \A e \in Reveals : revealVisible[e]

----------------------------------------------------------------------------
\* The validation rules over all short values (lines 106-118).  The first
\* field of the form is an email input or a textarea holding any value of at
\* most MaxLen characters; the blur and submit listeners apply its rule.

MaxLen == 5

EmailChars    == {"a", "@", ".", " "}
TextareaChars == {"a", " ", "\n"}

Strings(A) == UNION { [1..n -> A] : n \in 0..MaxLen }

\* The value of an <input type=email> has no line break and no leading or
\* trailing whitespace (the browser's value sanitization).
EmailValues == { v \in Strings(EmailChars) : Trim(v) = v }

MinLengths == 0..(MaxLen - 2)      \* minlength attributes; 0 = no attribute

RulePage(kind, required, min, v) ==
  [BasePage EXCEPT !.form = TRUE,
                   !.kind = [f \in Fields |-> IF f = 1 THEN kind ELSE "text"],
                   !.required = [f \in Fields |-> f = 1 /\ required],
                   !.minlength = [f \in Fields |-> IF f = 1 THEN min ELSE 0],
                   !.value0 = [f \in Fields |-> IF f = 1 THEN v ELSE <<>>]]

RulePages ==
  { RulePage("email", r, 0, v) : r \in BOOLEAN, v \in EmailValues }
  \cup
  { RulePage("textarea", c.r, c.m, v) :
      c \in [r : BOOLEAN, m : MinLengths], v \in Strings(TextareaChars) }

InitRules == \E p \in RulePages : InitPage(p, navBreakpoint, 0)

NextRules ==
  \/ OnReady
  \/ \E f \in Fields : FocusField(f)
  \/ \E f \in Fields : Blur(f)
  \/ Submit

SpecRules == InitRules /\ [][NextRules]_vars

\* The loose address shape: an '@' with a character before it, then at least
\* one character, a '.', and at least one character after the dot.
AddressShape(v) ==
  \E i \in 2..Len(v) : \E j \in (i + 2)..(Len(v) - 1) : v[i] = "@" /\ v[j] = "."

\* C12: for every value of an email field, whatever its required flag, the
\* rule returns the required message iff the value is empty; for a non-empty
\* value it returns no error iff the value has the shape text@text.text, and
\* the invalid-format message otherwise.
C12_EmailRule ==
  (page.form /\ page.kind[1] = "email" /\ validated[1]) =>
     /\ errText[1] = "Email is required." <=> value[1] = <<>>
     /\ value[1] # <<>> => (errText[1] = "" <=> AddressShape(value[1]))
     /\ errText[1] \in {"", "Email is required.", "Enter a valid email."}

\* 'a@a.a' was validated without error in a field that is not required.
C12_Witness ==
  /\ page.form /\ page.kind[1] = "email" /\ ~page.required[1] /\ validated[1]
  /\ value[1] = <<"a", "@", "a", ".", "a">> /\ errText[1] = ""

\* Number of characters of v from its first to its last non-whitespace one.
CoreLength(v) ==
  LET nw == { i \in 1..Len(v) : v[i] \notin Whitespace }
  IN  IF nw = {} THEN 0
      ELSE (CHOOSE i \in nw : \A k \in nw : k <= i)
           - (CHOOSE i \in nw : \A k \in nw : i <= k) + 1

\* C13: the textarea rule returns the required message iff the field is
\* required and its trimmed value is empty; otherwise the too-short message
\* iff a minlength is set and the trimmed length is below it; otherwise no
\* error.  Exactly minlength trimmed characters pass; surrounding whitespace
\* never counts.
C13_TextareaRule ==
  (page.form /\ page.kind[1] = "textarea" /\ validated[1]) =>
     LET n   == CoreLength(value[1])
         min == page.minlength[1]
     IN  /\ errText[1] = "Message is required." <=> (page.required[1] /\ n = 0)
         /\ errText[1] = "Please write at least min characters."
              <=> (~(page.required[1] /\ n = 0) /\ min # 0 /\ n < min)
         /\ errText[1] \in {"", "Message is required.",
                            "Please write at least min characters."}

\* Exactly minlength characters between surrounding whitespace pass.
C13_Witness ==
  /\ page.form /\ page.kind[1] = "textarea" /\ page.required[1] /\ validated[1]
  /\ page.minlength[1] = 3
  /\ value[1] = <<" ", "a", "a", "a", "\n">> /\ errText[1] = ""

----------------------------------------------------------------------------
\* Mobile navigation: toggle and dismissal

NavLive == "nav" \in installed

\* The nav was open when the current event was dispatched.
NavWasOpen == "nav" \in evt.opened

ToggleClickEvt == evt.type = "click" /\ evt.target = "navToggle"

\* C14: every click on the toggle flips the nav exactly once (closed -> open,
\* open -> closed) and the document-level outside-click listener never runs
\* for that click, so a toggle click that opens the nav leaves it open after
\* all listeners of the click have finished.
C14_ToggleFlipsOnce ==
  (NavLive /\ ToggleClickEvt) =>
     /\ last \in {"", "navToggleClick"}
     /\ Idle => (last = "navToggleClick" /\ navOpen = ~NavWasOpen)

\* A toggle click on a closed nav has been handled and the nav is open.
C14_Witness ==
  NavLive /\ ToggleClickEvt /\ Idle /\ ~NavWasOpen /\ navOpen

\* C15: with the nav open, a click on a nav link, a click outside the nav and
\* the toggle, and a resize at width >= 901 each leave it closed; a click on a
\* non-link element inside the nav and a resize at width <= 900 leave it open;
\* none of these events opens a closed nav.
C15_NavDismissal ==
  (NavLive /\ Idle /\ evt.type \in {"click", "resize"} /\ ~ToggleClickEvt) =>
     LET closes ==
           \/ evt.type = "click" /\ evt.target = "navLink"
           \/ evt.type = "click" /\ evt.target \notin {"navLink", "navOther", "navToggle"}
           \/ evt.type = "resize" /\ width >= navBreakpoint
     IN  /\ (NavWasOpen /\ closes) => ~navOpen
         /\ (NavWasOpen /\ ~closes) => navOpen
         /\ ~NavWasOpen => ~navOpen

\* The open nav was closed by a click on one of its links.
C15_Witness ==
  /\ NavLive /\ Idle /\ NavWasOpen /\ ~navOpen
  /\ evt.type = "click" /\ evt.target = "navLink"

\* The open nav stayed open through a resize below the breakpoint.
C15_WitnessStaysOpen ==
  /\ NavLive /\ Idle /\ NavWasOpen /\ navOpen
  /\ evt.type = "resize" /\ width < navBreakpoint

----------------------------------------------------------------------------
\* Hero theme classifier (lines 326-332)

\* C16: for every combination of variant markers on the hero, initialization
\* adds at most one of red, blue, purple to the body; a hero with the red
\* marker yields exactly the red class; an absent hero or a hero without a
\* recognized marker adds none.
C16_HeroThemeClass ==
  /\ Cardinality(bodyClass \cap Variants) <= 1
  /\ Ready =>
       /\ (page.hero /\ "red" \in page.heroMarks) => bodyClass = {"red"}
       /\ (~page.hero \/ page.heroMarks = {}) => bodyClass = {}

----------------------------------------------------------------------------
\* Panels open together

AllPanelsLive == {"nav", "sidebar", "pill"} \subseteq installed

\* C17: on a page where the nav, the sidebar overlay and the sections overlay
\* are all active, no sequence of clicks on their controls, key presses and
\* resizes reaches a state in which two panels are open at the same time
\* (states between two events: every listener of the last event has run).
C17_PanelsMutuallyExclusive ==
  (AllPanelsLive /\ Idle) => Cardinality(OpenPanels) <= 1

----------------------------------------------------------------------------
\* Link clicks against the observer

\* The step is the firing of a link click's timer.
TimerFires == timers # <<>> /\ timers' = Tail(timers)

\* The active section was chosen by an observer callback and nothing has
\* touched the scroll-spy since: every click whose timer is still pending
\* came before that callback.
ObserverChoseLast == spyNote.kind = "observer" /\ spyNote.id # "none"

\* C18: the delayed activation of a link click takes effect before any
\* observer-driven activation that follows the click: the firing of a click's
\* timer never replaces an active section that an observer callback chose
\* after that click.
C18_TimerNeverOverwritesObserver ==
  [][(TimerFires /\ ObserverChoseLast) => linkActive' = linkActive]_vars

----------------------------------------------------------------------------
\* Back-to-top button: eventual consistency

\* The scheduling the browser guarantees: the onReady callback and every
\* dispatched listener run to completion, and a requested animation frame
\* runs once the page is idle.
SpecFabFair ==
  /\ SpecFab
  /\ WF_vars(OnReady)
  /\ WF_vars(FabResize)
  /\ WF_vars(Frame)

FabLive == "fab" \in installed

\* C19: under any interleaving of scroll events, resize events and animation
\* frames in which every requested frame eventually runs: ticking is never
\* true without a pending frame; every scroll is eventually followed by an
\* update that has read the offset of that time or a later one; and once
\* scrolling stops the button is eventually visible iff the final offset is
\* above 480, and stays so.
C19_EventuallyConsistent ==
  /\ [](ticking => frames > 0)
  /\ \A y \in ScrollStops :
       (FabLive /\ scrollY = y /\ lastRead # y) ~> (lastRead = scrollY)
  /\ \A y \in ScrollStops :
       <>[](scrollY = y) => <>[](fabVisible = Show(y) /\ lastRead = y)

\* Two scrolls were coalesced into one frame (the second found ticking set),
\* the frame has run, and the button shows for the final offset.
C19_Witness ==
  /\ FabLive /\ Idle /\ ~ticking /\ frames = 0 /\ frameRuns = 1
  /\ scrollY = threshold + 1 /\ lastRead = scrollY /\ fabVisible

----------------------------------------------------------------------------
\* Error-display elements

ErrorEls(f) == SelectSeq(errEls[f], LAMBDA n : n = "field-error")

\* C20: for every field and every sequence of blur, input and submit
\* validations the field has at most one error-display element, directly
\* after the field; it is created by the field's first validation and every
\* later validation uses that element instead of inserting another.
C20_OneErrorElement ==
  \A f \in Fields :
    /\ Len(ErrorEls(f)) <= 1
    /\ validated[f] <=> Len(ErrorEls(f)) = 1
    /\ validated[f] => errEls[f] = <<"field-error">> \o page.siblings[f]
    /\ ~validated[f] => errEls[f] = page.siblings[f]

\* The textarea, followed by a text node and a hint element, was validated by
\* an input event (its initial values all fail) and again by the accepted
\* submit: its one error element sits directly after it.
C20_Witness ==
  /\ pc = "submitted" /\ submitSeen = Fields
  /\ \E f \in Fields :
       /\ page.siblings[f] = <<"#text", "hint">>
       /\ errEls[f] = <<"field-error", "#text", "hint">>
       /\ errText[f] = ""

====
